---- MODULE Spec2Model ----
(***************************************************************************)
(* A model of siwe/siwe.py: the SiweMessage object (EIP-4361 message), its *)
(* constructor, prepare_message and verify.                                *)
(*                                                                         *)
(* Python values: an attribute that is None is the empty tuple, a present  *)
(* value v is the one-element tuple <<v>>.  Datetimes are records          *)
(* [inst, aware]: the instant on the time line and whether the datetime    *)
(* carries a UTC offset (Python refuses to order an aware datetime against *)
(* a naive one and raises TypeError).                                      *)
(***************************************************************************)
EXTENDS Integers, Sequences, FiniteSets, TLC

VARIABLES
    obj,        \* "new" before __init__, "ok" once it returned, "failed" once it raised
    ctor_error, \* the message of the ValueError __init__ raised, "" if none
    ctor_input, \* the message_dict and require_address flag __init__ was called with
    self,       \* the attributes of the SiweMessage object (its __slots__)
    call,       \* the last completed prepare_message / verify call: arguments and outcome
    first_text, \* the canonical text returned by the first serialization, None before it
    nonce_sets, \* how many times line 173 has assigned self.nonce
    issued_sets,\* how many times line 183 has assigned self.issued_at
    thread      \* per thread: the position and locals of a call in progress (SpecConc)

vars == <<obj, ctor_error, ctor_input, self, call, first_text, nonce_sets, issued_sets, thread>>

----------------------------------------------------------------------------
(* Python values *)

None == <<>>

Some(v) == <<v>>

\* Python truthiness of an Optional[str]: None and "" are falsy.
Truthy(o) == o # None /\ o[1] # ""

\* Python truthiness of an Optional[int]: None and 0 are falsy.
TruthyInt(o) == o # None /\ o[1] # 0

\* f"{value}" of an Optional[str]: None is rendered as the text None.
fstr(o) == IF o = None THEN "None" ELSE o[1]

----------------------------------------------------------------------------
(* Bounds *)

\* Instants of the time line are 1..MaxTime.
MaxTime == 4

\* Number of distinct tokens generate_nonce can return.
NumNonces == 2

Clock == 1..MaxTime

Threads == {1, 2}

----------------------------------------------------------------------------
(* External capabilities, given by what they do on the values of the model *)

\* eth_utils.is_checksum_formatted_address: mixed-case hex text.
ChecksumAddresses == {"0xAbC1", "0xCdE2"}

is_checksum_formatted_address(s) == s \in ChecksumAddresses

\* rfc3987.parse(value, rule="URI") succeeds.
ValidUris == {"https://a.com", "https://a.com/r1"}

rfc3987_parse_ok(s) == s \in ValidUris

\* dateutil isoparse: the ISO-8601 texts of the model and the datetime each denotes.
\* A text without an offset parses to a naive datetime.
IsoAware == {"2021-01-02T00:00:00Z", "2021-01-04T00:00:00Z"}

IsoNaive == {"2021-01-03T00:00:00"}

isoparse_ok(s) == s \in IsoAware \cup IsoNaive

isoparse(s) ==
    CASE s = "2021-01-02T00:00:00Z" -> [inst |-> 2, aware |-> TRUE]
      [] s = "2021-01-04T00:00:00Z" -> [inst |-> 4, aware |-> TRUE]
      [] s = "2021-01-03T00:00:00" -> [inst |-> 3, aware |-> FALSE]

\* int(value) on text: succeeds on decimal text only.
int_ok(s) == s \in {"5"}

int_of(s) == CASE s = "5" -> 5

\* datetime.now().astimezone().isoformat() at instant n.
isoformat(n) == "2021-01-0" \o ToString(n) \o "T00:00:00+00:00"

\* generate_nonce(): 11 alphanumeric characters from secrets.choice.
generate_nonce == {"abcdefghi" \o ToString(9 + i) : i \in 1..NumNonces}

----------------------------------------------------------------------------
(* The object *)

\* The keys of __slots__ the loop of __init__ takes from the dict;
\* _require_address, the last one, is assigned from the argument at line 154.
Slots == <<"domain", "address", "statement", "uri", "chain_id", "version", "nonce",
           "issued_at", "expiration_time", "not_before", "request_id", "resources">>

\* All attributes unset: the object before __init__ has run.
Blank ==
    [domain |-> None, address |-> None, statement |-> None, uri |-> None,
     chain_id |-> None, version |-> None, nonce |-> None, issued_at |-> None,
     expiration_time |-> None, not_before |-> None, request_id |-> None,
     resources |-> None, require_address |-> TRUE]

\* No call of __init__ yet: an empty dict.
NoArgs ==
    [dict |-> [i \in {Slots[j] : j \in 1..Len(Slots)} |-> None], require_address |-> TRUE]

\* A chain_id given as an int, and one given as text.
PyInt(n) == [type |-> "int", int |-> n, str |-> ""]

PyStr(s) == [type |-> "str", int |-> 0, str |-> s]

\* The error the loop body of __init__ raises for one key, "" when it raises none.
KeyError(d, key) ==
    LET value == d[key] IN
    CASE key = "chain_id" /\ value # None /\ value[1].type # "int" ->
            IF int_ok(value[1].str) THEN "" ELSE "invalid literal for int()"
      [] key \in {"issued_at", "expiration_time", "not_before"} /\ value # None ->
            IF isoparse_ok(value[1]) THEN "" ELSE "invalid isoformat string"
      [] key = "domain" /\ value = Some("") -> "Message domain must not be empty"
      [] key = "address" /\ value # None ->
            IF is_checksum_formatted_address(value[1]) THEN ""
            ELSE "Message address must be in EIP-55 format"
      [] key = "uri" /\ value # None ->
            IF rfc3987_parse_ok(value[1]) THEN "" ELSE "Invalid format for field uri"
      [] key = "resources" /\ value # None ->
            IF \A i \in 1..Len(value[1]) : rfc3987_parse_ok(value[1][i]) THEN ""
            ELSE "Invalid format for field resources"
      [] OTHER -> ""

\* The value setattr stores for one key: chain_id text is coerced with int().
Stored(d, key) ==
    LET value == d[key] IN
    IF key = "chain_id" /\ value # None
    THEN Some(IF value[1].type = "int" THEN value[1].int ELSE int_of(value[1].str))
    ELSE value

\* The keys of __slots__ whose loop body raises, in the order of the loop.
BadKeys(d) == {i \in 1..Len(Slots) : KeyError(d, Slots[i]) # ""}

FirstBad(d) == CHOOSE i \in BadKeys(d) : \A j \in BadKeys(d) : i <= j

\* SiweMessage.__init__(d, require_address=ra) on arguments drawn from Args, d a
\* dict (line 120).
\* The loop stops at the first key that raises; the object then never escapes.
Construct(Args) ==
    /\ obj = "new"
    /\ \E a \in Args :
        LET d == a.dict
            ra == a.require_address
        IN
        /\ ctor_input' = a
        /\ IF BadKeys(d) = {}
           THEN /\ obj' = "ok"
                /\ ctor_error' = ""
                /\ self' = [domain |-> Stored(d, "domain"),
                            address |-> Stored(d, "address"),
                            statement |-> Stored(d, "statement"),
                            uri |-> Stored(d, "uri"),
                            chain_id |-> Stored(d, "chain_id"),
                            version |-> Stored(d, "version"),
                            nonce |-> Stored(d, "nonce"),
                            issued_at |-> Stored(d, "issued_at"),
                            expiration_time |-> Stored(d, "expiration_time"),
                            not_before |-> Stored(d, "not_before"),
                            request_id |-> Stored(d, "request_id"),
                            resources |-> Stored(d, "resources"),
                            require_address |-> ra]
           ELSE /\ obj' = "failed"
                /\ ctor_error' = KeyError(d, Slots[FirstBad(d)])
                /\ self' = self
    /\ UNCHANGED <<call, first_text, nonce_sets, issued_sets, thread>>

----------------------------------------------------------------------------
(* prepare_message *)

RECURSIVE join(_, _)
\* sep.join(parts)
join(sep, parts) ==
    IF Len(parts) = 0 THEN ""
    ELSE IF Len(parts) = 1 THEN parts[1]
    ELSE parts[1] \o sep \o join(sep, Tail(parts))

\* Line 175: f"Chain ID: {self.chain_id or 1}".
chain_field(m) ==
    "Chain ID: " \o ToString(IF TruthyInt(m.chain_id) THEN m.chain_id[1] ELSE 1)

\* Lines 200-204: the Resources block.
resources_field(m) ==
    join("\n", <<"Resources:">> \o [i \in 1..Len(m.resources[1]) |-> "- " \o m.resources[1][i]])

\* The text prepare_message returns, given the values it read from self.nonce
\* (line 177) and self.issued_at (line 185); every other attribute is read from m.
RenderText(m, nonce, issued_at) ==
    LET header == fstr(m.domain) \o " wants you to sign in with your Ethereum account:"
        prefix == join("\n", <<header, IF Truthy(m.address) THEN m.address[1] ELSE "">>)
        suffix_array ==
            <<"URI: " \o fstr(m.uri),
              "Version: " \o fstr(m.version),
              chain_field(m),
              "Nonce: " \o fstr(nonce),
              "Issued At: " \o fstr(issued_at)>>
            \o (IF Truthy(m.expiration_time)
                THEN <<"Expiration Time: " \o m.expiration_time[1]>> ELSE <<>>)
            \o (IF Truthy(m.not_before)
                THEN <<"Not Before: " \o m.not_before[1]>> ELSE <<>>)
            \o (IF Truthy(m.request_id)
                THEN <<"Request ID: " \o m.request_id[1]>> ELSE <<>>)
            \o (IF m.resources # None /\ Len(m.resources[1]) > 0
                THEN <<resources_field(m)>> ELSE <<>>)
        suffix == join("\n", suffix_array)
        prefix2 == IF Truthy(m.statement)
                   THEN join("\n\n", <<prefix, m.statement[1]>>)
                   ELSE prefix \o "\n"
    IN join("\n\n", <<prefix2, suffix>>)

\* Mutant: the nonce is generated on every call.
DefaultNonce_always(m, n) == [m EXCEPT !.nonce = Some(IF n = "" THEN "abcdefghi10" ELSE n)]

\* Lines 172-173: self.nonce is assigned only when it is None.
DefaultNonce(m, n) == IF m.nonce = None THEN [m EXCEPT !.nonce = Some(n)] ELSE m

\* Lines 181-183: self.issued_at is assigned only when it is None.
DefaultIssuedAt(m, now) ==
    IF m.issued_at = None THEN [m EXCEPT !.issued_at = Some(isoformat(now))] ELSE m

\* Mutant: the presentation default of the chain id is stored in the object.
prepare_message_stores_chain(m, n, now) ==
    LET m1 == DefaultIssuedAt(DefaultNonce(m, n), now)
        m2 == IF TruthyInt(m1.chain_id) THEN m1 ELSE [m1 EXCEPT !.chain_id = Some(1)]
    IN [self |-> m2, text |-> RenderText(m2, m2.nonce, m2.issued_at)]

\* prepare_message run to completion on attributes m, with generate_nonce() = n and
\* datetime.now() = now: the attributes it leaves and the text it returns.
prepare_message(m, n, now) ==
    LET m2 == DefaultIssuedAt(DefaultNonce(m, n), now)
    IN [self |-> m2, text |-> RenderText(m2, m2.nonce, m2.issued_at)]

----------------------------------------------------------------------------
(* verify *)

\* The addresses ECDSA recovery can yield.
RecoverableAddresses == {"0xAbC1", "0xCdE2"}

\* The ways a signature text can be malformed.
Malformed == {"wrong length", "bad recovery id", "not hex"}

\* The signatures a caller passes: 65 well-formed bytes, from which recovery over
\* the encoded message yields the address signer, or a malformed text.
Signatures ==
    {[form |-> "ok", signer |-> a] : a \in RecoverableAddresses}
    \cup {[form |-> f, signer |-> ""] : f \in Malformed}

\* w3.eth.account.recover_message(message, signature=signature): the address it
\* returns, or the exception class it raises.
recover_message(message, signature) ==
    CASE signature.form = "ok" -> [raises |-> "", address |-> signature.signer]
      [] signature.form = "wrong length" -> [raises |-> "ValidationError", address |-> ""]
      [] signature.form = "bad recovery id" -> [raises |-> "BadSignature", address |-> ""]
      [] signature.form = "not hex" -> [raises |-> "binascii.Error", address |-> ""]

\* Line 275: the exception classes the try block catches.
CaughtByVerify == {"ValidationError", "BadSignature"}

\* Line 263: the effective verification instant.
verification_time(timestamp, utcnow) ==
    IF timestamp = None THEN [inst |-> utcnow, aware |-> TRUE] ELSE timestamp[1]

get_expiration_time(m) ==
    IF m.expiration_time # None THEN Some(isoparse(m.expiration_time[1])) ELSE None

get_not_before(m) ==
    IF m.not_before # None THEN Some(isoparse(m.not_before[1])) ELSE None

Raise(exc, missing, recovered) ==
    [status |-> "raise", value |-> exc, missing |-> missing, recovered |-> recovered]

Return(address) ==
    [status |-> "return", value |-> address, missing |-> <<>>, recovered |-> TRUE]

\* Mutant: the construction-time flag is not consulted.
Missing_ignores_flag(m) == IF m.address = None THEN <<"address">> ELSE <<>>

\* Lines 247-252: the list of missing fields (encode_defunct never returns None).
Missing(m) == IF m.require_address /\ m.address = None THEN <<"address">> ELSE <<>>

\* Mutant: the recovered address is returned without comparing it.
RecoverAndCompare_unchecked(m, message, signature) ==
    LET r == recover_message(message, signature) IN
    IF r.raises # ""
    THEN IF r.raises \in CaughtByVerify
         THEN Raise("InvalidSignature", <<>>, TRUE)
         ELSE Raise(r.raises, <<>>, TRUE)
    ELSE Return(r.address)

\* Lines 273-283: recovery and the comparison with the declared address.
RecoverAndCompare(m, message, signature) ==
    LET r == recover_message(message, signature) IN
    IF r.raises # ""
    THEN IF r.raises \in CaughtByVerify
         THEN Raise("InvalidSignature", <<>>, TRUE)
         ELSE Raise(r.raises, <<>>, TRUE)
    ELSE IF Truthy(m.address) /\ r.address # m.address[1]
         THEN Raise("InvalidSignature", <<>>, TRUE)
         ELSE Return(r.address)

\* Lines 263-271: the validity window.  Ordering an aware datetime against a
\* naive one raises TypeError.
Window(m, vt) ==
    LET expiration_time == get_expiration_time(m)
        not_before == get_not_before(m)
    IN  IF expiration_time # None /\ expiration_time[1].aware # vt.aware
        THEN "TypeError"
        ELSE IF expiration_time # None /\ vt.inst >= expiration_time[1].inst
        THEN "ExpiredMessage"
        ELSE IF not_before # None /\ not_before[1].aware # vt.aware
        THEN "TypeError"
        ELSE IF not_before # None /\ vt.inst <= not_before[1].inst
        THEN "NotYetValidMessage"
        ELSE ""

\* Lines 247-283 of verify on attributes m (after prepare_message has run),
\* message being the encoded canonical text.
verify(m, message, signature, domain, nonce, vt) ==
    IF Len(Missing(m)) > 0 THEN Raise("MalformedSession", Missing(m), FALSE)
    ELSE IF domain # None /\ m.domain # domain THEN Raise("DomainMismatch", <<>>, FALSE)
    ELSE IF nonce # None /\ m.nonce # nonce THEN Raise("NonceMismatch", <<>>, FALSE)
    ELSE IF Window(m, vt) # "" THEN Raise(Window(m, vt), <<>>, FALSE)
    ELSE RecoverAndCompare(m, message, signature)

----------------------------------------------------------------------------
(* Calls made one at a time *)

Idle == obj = "ok" /\ call.op = "none" /\ \A t \in Threads : thread[t].pc = "idle"

NoteText(text) == first_text' = IF first_text = None THEN Some(text) ELSE first_text

\* Counts the assignments a call made: an attribute that differs after the call.
NoteSets(m, m2) ==
    /\ nonce_sets' = nonce_sets + (IF m2.nonce # m.nonce THEN 1 ELSE 0)
    /\ issued_sets' = issued_sets + (IF m2.issued_at # m.issued_at THEN 1 ELSE 0)

\* generate_nonce() is called, and the clock is read, only where the code does so:
\* otherwise the value is not drawn at all (0 stands for no read).
NonceDraws(m) == IF m.nonce = None THEN generate_nonce ELSE {""}

ClockReads(o) == IF o = None THEN Clock ELSE {0}

\* A caller runs self.prepare_message() to completion.
PrepareMessage ==
    /\ Idle
    /\ \E n \in NonceDraws(self), now \in ClockReads(self.issued_at) :
        LET p == prepare_message(self, n, now) IN
        /\ self' = p.self
        /\ call' = [op |-> "prepare_message", status |-> "return", text |-> p.text]
        /\ NoteText(p.text)
        /\ NoteSets(self, p.self)
    /\ UNCHANGED <<obj, ctor_error, ctor_input, thread>>

\* The timestamps a caller passes: None, or an aware datetime.
Timestamps == {None} \cup {Some([inst |-> i, aware |-> TRUE]) : i \in Clock}

ExpectedDomains == {None, Some("a.com"), Some("b.org")}

ExpectedNonces == {None, Some("n0000001")}

\* A caller runs self.verify(signature, domain=, nonce=, timestamp=) to completion.
Verify ==
    /\ Idle
    /\ \E signature \in Signatures, domain \in ExpectedDomains, nonce \in ExpectedNonces,
          timestamp \in Timestamps, n \in NonceDraws(self),
          now \in ClockReads(self.issued_at) :
        \E utcnow \in ClockReads(timestamp) :
        LET p == prepare_message(self, n, now)
            vt == verification_time(timestamp, utcnow)
            out == verify(p.self, p.text, signature, domain, nonce, vt)
        IN
        /\ (self.issued_at = None /\ timestamp = None) => now <= utcnow
        /\ self' = p.self
        /\ call' = [op |-> "verify", status |-> out.status, value |-> out.value,
                    missing |-> out.missing, recovered |-> out.recovered,
                    text |-> p.text,
                    signature |-> signature, domain |-> domain, nonce |-> nonce,
                    timestamp |-> timestamp, vt |-> vt]
        /\ NoteText(p.text)
        /\ NoteSets(self, p.self)
    /\ UNCHANGED <<obj, ctor_error, ctor_input, thread>>

\* The caller has the outcome of the call; the frame is gone.
Done ==
    /\ call.op # "none"
    /\ call' = [op |-> "none"]
    /\ UNCHANGED <<obj, ctor_error, ctor_input, self, first_text, nonce_sets, issued_sets,
                   thread>>

----------------------------------------------------------------------------
(* Inputs of the constructor *)

\* Every key over present, absent and malformed values.
CtorDicts ==
    [domain : {None, Some(""), Some("a.com")},
     address : {None, Some("0xabc1"), Some("0xAbC1")},
     statement : {None, Some("hi"), Some("a\nb")},
     uri : {None, Some("https://a.com"), Some("a b")},
     chain_id : {None, Some(PyInt(5)), Some(PyStr("5")), Some(PyStr("x"))},
     version : {Some("1")},
     nonce : {None, Some("abc"), Some("n0000001")},
     issued_at : {None, Some("2021-01-02T00:00:00Z"), Some("noon")},
     expiration_time : {None, Some("2021-01-04T00:00:00Z"), Some("noon")},
     not_before : {None, Some("2021-01-02T00:00:00Z"), Some("noon")},
     request_id : {None, Some("r1")},
     resources : {None, Some(<<"https://a.com/r1">>), Some(<<"https://a.com/r1", "a b">>)}]

NoCall == [op |-> "none"]

\* A thread that has not called anything yet.
NotStarted ==
    [pc |-> "idle", op |-> "none", signature |-> [form |-> "ok", signer |-> ""],
     nonce |-> None, nonce_read |-> None, issued_read |-> None, text |-> "",
     status |-> "", value |-> ""]

Init ==
    /\ obj = "new"
    /\ ctor_error = ""
    /\ ctor_input = NoArgs
    /\ self = Blank
    /\ call = NoCall
    /\ first_text = None
    /\ nonce_sets = 0
    /\ issued_sets = 0
    /\ thread = [t \in Threads |-> NotStarted]

ConstructAny == Construct([dict : CtorDicts, require_address : BOOLEAN])

NextCtor == ConstructAny

SpecCtor == Init /\ [][NextCtor]_vars

\* The dict every session dict is a variation of.
Base ==
    [domain |-> Some("a.com"), address |-> Some("0xAbC1"), statement |-> None,
     uri |-> Some("https://a.com"), chain_id |-> None, version |-> Some("1"),
     nonce |-> Some("n0000001"), issued_at |-> Some("2021-01-02T00:00:00Z"),
     expiration_time |-> None, not_before |-> None, request_id |-> None,
     resources |-> None]

\* Dicts that vary the attributes verify reads.
CheckedDicts ==
    {[Base EXCEPT !.address = a, !.nonce = n,
                  !.expiration_time = e, !.not_before = b] :
        a \in {None, Some("0xAbC1")},
        n \in {None, Some("n0000001")},
        e \in {None, Some("2021-01-02T00:00:00Z"), Some("2021-01-04T00:00:00Z"),
               Some("2021-01-03T00:00:00")},
        b \in {None, Some("2021-01-02T00:00:00Z"), Some("2021-01-04T00:00:00Z")}}

\* The attributes only prepare_message reads, all set.
Full ==
    [Base EXCEPT !.statement = Some("hi"), !.chain_id = Some(PyStr("5")),
                 !.request_id = Some("r1"), !.resources = Some(<<"https://a.com/r1">>)]

\* Dicts that vary the attributes only prepare_message reads.
TextDicts ==
    {[t EXCEPT !.nonce = n, !.issued_at = i] :
        t \in {Base, Full, [Base EXCEPT !.domain = None, !.uri = None]},
        n \in {None, Some("n0000001")},
        i \in {None, Some("2021-01-02T00:00:00Z")}}

\* Dicts __init__ rejects.
RejectedDicts ==
    {[Base EXCEPT !.domain = Some("")], [Base EXCEPT !.address = Some("0xabc1")]}

SessionArgs ==
    [dict : CheckedDicts, require_address : BOOLEAN]
    \cup [dict : TextDicts \cup RejectedDicts, require_address : {TRUE}]

ConstructSession == Construct(SessionArgs)

Next == ConstructSession \/ PrepareMessage \/ Verify \/ Done

Spec == Init /\ [][Next]_vars

----------------------------------------------------------------------------
(* Properties of verify and prepare_message, calls made one at a time *)

Verified == obj = "ok" /\ call.op = "verify"

Raised(exc) == call.status = "raise" /\ call.value = exc

\* The conditions of the seven checks, as the specification words them, on the
\* arguments of the call and the attributes the checks read.
AddressAbsent == self.require_address /\ self.address = None

DomainDiffers == call.domain # None /\ self.domain # call.domain

NonceDiffers == call.nonce # None /\ self.nonce # call.nonce

AtOrAfterExpiration ==
    self.expiration_time # None /\ call.vt.inst >= isoparse(self.expiration_time[1]).inst

AtOrBeforeNotBefore ==
    self.not_before # None /\ call.vt.inst <= isoparse(self.not_before[1]).inst

Recovery == recover_message(call.text, call.signature)

RecoveryFails == Recovery.raises # ""

RecoveredDiffers ==
    /\ Recovery.raises = ""
    /\ self.address # None
    /\ Recovery.address # self.address[1]

FirstFailure ==
    IF AddressAbsent THEN "MalformedSession"
    ELSE IF DomainDiffers THEN "DomainMismatch"
    ELSE IF NonceDiffers THEN "NonceMismatch"
    ELSE IF AtOrAfterExpiration THEN "ExpiredMessage"
    ELSE IF AtOrBeforeNotBefore THEN "NotYetValidMessage"
    ELSE IF RecoveryFails \/ RecoveredDiffers THEN "InvalidSignature"
    ELSE ""

\* C1: every verify call fails with the error of the first failing check in the
\* order malformed session, domain mismatch, nonce mismatch, expired message, not
\* yet valid, invalid signature, and succeeds when none fails; signature recovery
\* is attempted only when none of the first five checks fails.
C1_FirstFailingCheck ==
    Verified =>
        /\ IF FirstFailure = "" THEN call.status = "return" ELSE Raised(FirstFailure)
        /\ call.recovered <=>
             ~(AddressAbsent \/ DomainDiffers \/ NonceDiffers
               \/ AtOrAfterExpiration \/ AtOrBeforeNotBefore)

C3_AnyRecoveryFailure ==
    (Verified /\ call.recovered /\ RecoveryFails) => Raised("InvalidSignature")

\* C4: past the first three checks, verify fails with ExpiredMessage exactly when
\* expiration_time is set and the instant is at or after it, otherwise with
\* NotYetValidMessage exactly when not_before is set and the instant is at or before
\* it, and attempts recovery exactly when the instant is strictly inside the window.
C4_ValidityWindow ==
    (Verified /\ ~AddressAbsent /\ ~DomainDiffers /\ ~NonceDiffers) =>
        /\ Raised("ExpiredMessage") <=> AtOrAfterExpiration
        /\ Raised("NotYetValidMessage") <=> (~AtOrAfterExpiration /\ AtOrBeforeNotBefore)
        /\ call.recovered <=> (~AtOrAfterExpiration /\ ~AtOrBeforeNotBefore)

\* C5: nonce and issued_at are each assigned at most once, a value given to the
\* constructor is never replaced, and every serialization returns the text the
\* first one returned.
C5_SingleAssignment ==
    obj = "ok" =>
        /\ nonce_sets <= 1 /\ issued_sets <= 1
        /\ ctor_input.dict.nonce # None =>
             (nonce_sets = 0 /\ self.nonce = ctor_input.dict.nonce)
        /\ ctor_input.dict.issued_at # None =>
             (issued_sets = 0 /\ self.issued_at = ctor_input.dict.issued_at)
        /\ (nonce_sets = 0 /\ ctor_input.dict.nonce = None) => self.nonce = None
        /\ (issued_sets = 0 /\ ctor_input.dict.issued_at = None) => self.issued_at = None
        /\ call.op # "none" => first_text = Some(call.text)

\* Witness of C5: a later call on an object whose nonce and issued_at were both
\* filled by an earlier call.
C5_Witness ==
    /\ obj = "ok" /\ call.op = "prepare_message"
    /\ ctor_input.dict.nonce = None /\ ctor_input.dict.issued_at = None
    /\ nonce_sets = 1 /\ issued_sets = 1
    /\ first_text = Some(call.text)

\* C9: on an object without address, verify fails with MalformedSession listing
\* address when require_address is set, whatever the arguments, and never fails
\* with MalformedSession when it is not set.
C9_MalformedSession ==
    (Verified /\ self.address = None) =>
        IF self.require_address
        THEN /\ Raised("MalformedSession")
             /\ \E i \in 1..Len(call.missing) : call.missing[i] = "address"
        ELSE ~Raised("MalformedSession")

\* Witness of C9: verify with a signature that recovers, on an object built with
\* require_address and no address.
C9_Witness ==
    /\ Verified /\ self.address = None /\ self.require_address
    /\ call.signature.form = "ok" /\ call.domain # None /\ call.timestamp # None

\* C10: no call changes domain, address, statement, uri, version, chain_id,
\* expiration_time, not_before, request_id, resources or the require-address flag;
\* an unset chain_id is rendered as 1 and stays unset.
C10_Frame ==
    obj = "ok" =>
        /\ \A i \in 1..Len(Slots) :
             Slots[i] \notin {"nonce", "issued_at"} =>
                 self[Slots[i]] = Stored(ctor_input.dict, Slots[i])
        /\ self.require_address = ctor_input.require_address
        /\ ctor_input.dict.chain_id = None =>
             (self.chain_id = None /\ chain_field(self) = "Chain ID: 1")

\* Witness of C10: a verify call that failed, on an object with chain_id unset
\* whose nonce the call has filled.
C10_Witness ==
    /\ Verified /\ call.status = "raise"
    /\ ctor_input.dict.chain_id = None /\ ctor_input.dict.nonce = None
    /\ self.nonce # None

----------------------------------------------------------------------------
(* Two threads calling into one shared object.  A thread switch can fall       *)
(* between any two reads or writes of an attribute; the steps below are the    *)
(* reads and writes of self.nonce and self.issued_at, the only attributes      *)
(* that are ever written.                                                      *)

ConcArgs ==
    [dict : {[Base EXCEPT !.nonce = n, !.issued_at = i] :
                n \in {None, Some("n0000001")},
                i \in {None, Some("2021-01-02T00:00:00Z")}},
     require_address : {TRUE}]

ConstructShared == Construct(ConcArgs)

At(t, pc) == obj = "ok" /\ thread[t].pc = pc

Goto(t, pc) == thread' = [thread EXCEPT ![t].pc = pc]

Shared == <<obj, ctor_error, ctor_input, call, first_text>>

\* Thread t enters prepare_message, directly or through line 244 of verify.
Begin(t) ==
    /\ At(t, "idle")
    /\ \/ thread' = [thread EXCEPT ![t].pc = "l172", ![t].op = "prepare_message"]
       \/ \E nonce \in ExpectedNonces :
            thread' = [thread EXCEPT ![t].pc = "l172", ![t].op = "verify",
                                     ![t].signature = [form |-> "ok", signer |-> "0xAbC1"],
                                     ![t].nonce = nonce]
    /\ UNCHANGED <<Shared, self, nonce_sets, issued_sets>>

\* Line 172: if self.nonce is None.
TestNonce(t) ==
    /\ At(t, "l172")
    /\ Goto(t, IF self.nonce = None THEN "l173" ELSE "l177")
    /\ UNCHANGED <<Shared, self, nonce_sets, issued_sets>>

\* Line 173: self.nonce = generate_nonce().
SetNonce(t) ==
    /\ At(t, "l173")
    /\ \E n \in generate_nonce : self' = [self EXCEPT !.nonce = Some(n)]
    /\ nonce_sets' = nonce_sets + 1
    /\ Goto(t, "l177")
    /\ UNCHANGED <<Shared, issued_sets>>

\* Line 177: nonce_field reads self.nonce.
ReadNonce(t) ==
    /\ At(t, "l177")
    /\ thread' = [thread EXCEPT ![t].pc = "l181", ![t].nonce_read = self.nonce]
    /\ UNCHANGED <<Shared, self, nonce_sets, issued_sets>>

\* Line 181: if self.issued_at is None.
TestIssuedAt(t) ==
    /\ At(t, "l181")
    /\ Goto(t, IF self.issued_at = None THEN "l183" ELSE "l185")
    /\ UNCHANGED <<Shared, self, nonce_sets, issued_sets>>

\* Line 183: self.issued_at = datetime.now().astimezone().isoformat().
SetIssuedAt(t) ==
    /\ At(t, "l183")
    /\ \E now \in Clock : self' = [self EXCEPT !.issued_at = Some(isoformat(now))]
    /\ issued_sets' = issued_sets + 1
    /\ Goto(t, "l185")
    /\ UNCHANGED <<Shared, nonce_sets>>

\* Lines 185-213: issued_at_field reads self.issued_at and the text is put
\* together; prepare_message returns it.
ReadIssuedAt(t) ==
    /\ At(t, "l185")
    /\ LET text == RenderText(self, thread[t].nonce_read, self.issued_at) IN
       thread' = [thread EXCEPT
                    ![t].issued_read = self.issued_at,
                    ![t].text = text,
                    ![t].pc = IF thread[t].op = "verify" THEN "l247" ELSE "done",
                    ![t].status = IF thread[t].op = "verify" THEN "" ELSE "return",
                    ![t].value = IF thread[t].op = "verify" THEN "" ELSE text]
    /\ UNCHANGED <<Shared, self, nonce_sets, issued_sets>>

\* Lines 247-283: the checks of verify on the message built at line 244, with no
\* expected domain and the timestamp of instant 3.
Checks(t) ==
    /\ At(t, "l247")
    /\ LET out == verify(self, thread[t].text, thread[t].signature, None, thread[t].nonce,
                         [inst |-> 3, aware |-> TRUE]) IN
       thread' = [thread EXCEPT ![t].pc = "done", ![t].status = out.status,
                                ![t].value = out.value]
    /\ UNCHANGED <<Shared, self, nonce_sets, issued_sets>>

NextConc ==
    \/ ConstructShared
    \/ \E t \in Threads : Begin(t)
    \/ \E t \in Threads : TestNonce(t)
    \/ \E t \in Threads : SetNonce(t)
    \/ \E t \in Threads : ReadNonce(t)
    \/ \E t \in Threads : TestIssuedAt(t)
    \/ \E t \in Threads : SetIssuedAt(t)
    \/ \E t \in Threads : ReadIssuedAt(t)
    \/ \E t \in Threads : Checks(t)

SpecConc == Init /\ [][NextConc]_vars

\* The positions at which thread t has read self.nonce, and self.issued_at.
HasReadNonce(t) == thread[t].pc \in {"l181", "l183", "l185", "l247", "done"}

HasReadIssuedAt(t) == thread[t].pc \in {"l247", "done"}

\* C6: under every interleaving of two calls on a shared object, nonce and
\* issued_at are each assigned at most once, no value a call has read is changed
\* afterwards, and both calls use the canonical text of the attributes the object
\* holds when both have finished.
C6_SafeToShare ==
    /\ nonce_sets <= 1 /\ issued_sets <= 1
    /\ \A t \in Threads : HasReadNonce(t) => thread[t].nonce_read = self.nonce
    /\ \A t \in Threads : HasReadIssuedAt(t) => thread[t].issued_read = self.issued_at
    /\ (\A t \in Threads : thread[t].pc = "done") =>
         \A t \in Threads : thread[t].text = RenderText(self, self.nonce, self.issued_at)

----------------------------------------------------------------------------
(* Properties of the constructor *)

\* The syntax rules of the fields the constructor does not look at.
LineBreakFree(s) == s # "a\nb"

NonceRule(s) == s \in {"n0000001"} \cup generate_nonce

\* C7: construction from a dict succeeds only if domain is present and non-empty
\* and uri is present and a valid URI.
C7_DomainAndUriMandatory ==
    obj = "ok" =>
        /\ ctor_input.dict.domain # None /\ ctor_input.dict.domain # Some("")
        /\ ctor_input.dict.uri # None /\ rfc3987_parse_ok(ctor_input.dict.uri[1])

\* C8: construction succeeds only if every optional field that is present
\* satisfies its syntax rule, and no malformed value is stored.
C8_OptionalFieldsValidated ==
    obj = "ok" =>
        \A m \in {ctor_input.dict, self} :
            /\ m.statement # None => LineBreakFree(m.statement[1])
            /\ m.nonce # None => NonceRule(m.nonce[1])
            /\ m.address # None => is_checksum_formatted_address(m.address[1])
            /\ m.issued_at # None => isoparse_ok(m.issued_at[1])
            /\ m.expiration_time # None => isoparse_ok(m.expiration_time[1])
            /\ m.not_before # None => isoparse_ok(m.not_before[1])
            /\ m.resources # None =>
                 \A i \in 1..Len(m.resources[1]) : rfc3987_parse_ok(m.resources[1][i])
            /\ (ctor_input.dict.chain_id # None /\ ctor_input.dict.chain_id[1].type = "str")
                 => int_ok(ctor_input.dict.chain_id[1].str)

====
